---- MODULE Spec2Model ----
(***************************************************************************)
(* Classification and fit-scoring engine of samgov: AIClassifier           *)
(* (src/ai_classifier.py) and AIScoringEngine (src/ai_scoring.py) over the *)
(* records of src/models.py.                                               *)
(*                                                                         *)
(* Representation.                                                         *)
(*  - A Python str is a TLA+ string; "in", lower() and upper() are         *)
(*    computed character by character.                                     *)
(*  - An enum member is the string str() gives for it                      *)
(*    ("OpportunityDomain.AI"); None is the string "None"; a Python bool   *)
(*    stored in a notice is "True" / "False".                              *)
(*  - A JSON value is a tagged record (JNull, JStr, JNum, JBool, JList,    *)
(*    JObj); a JSON object is a function from its keys to JSON values.     *)
(*  - A float is a fixed-point integer: a breakdown factor counts units of *)
(*    1/(100*Sub) point, a weighted sum units of 1/(100*100*Sub) point and *)
(*    a rounded fit_score hundredths of a point.  Binary rounding error of *)
(*    the float operations (below 1e-12 point) is not modelled.            *)
(*  - A Python exception leaving a function is the result [ok |-> FALSE].  *)
(***************************************************************************)
EXTENDS Integers, Sequences, FiniteSets, TLC

VARIABLES
    mode,       \* which entry point this behaviour exercises
    pc,         \* "ready" before the call, "done" after it returned
    client,     \* self.client is set (a generative provider is configured)
    opp,        \* the caller's notice object (mutated in place by the classifier)
    opp0,       \* its field values when the call was made
    profile,    \* the caller's capability profile
    reply,      \* what the completion collaborator does with the request of this call
    result,     \* the value the call returned
    requests,   \* number of requests sent to the completion collaborator
    rule_runs,  \* number of runs of the rule-based path
    items,      \* batch: the input list (its objects, as the caller sees them)
    items0,     \* batch: the field values of the input objects when the call was made
    replies,    \* batch: the collaborator's behaviour for the request of item i
    out,        \* batch: the output list built so far
    idx,        \* batch: index of the next item (0-based, as enumerate)
    used_ai,    \* batch: per output item, number of generative requests it made
    raised,     \* the call raised an exception to its caller instead of returning
    earlier,    \* the value an earlier call returned, with the field values it had then
    shares      \* an OpportunityScore holds the caller's notice object itself, not a copy

vars == <<mode, pc, client, opp, opp0, profile, reply, result, requests,
          rule_runs, items, items0, replies, out, idx, used_ai, raised, earlier, shares>>

-----------------------------------------------------------------------------
(* Bounds of the model *)

\* subdivisions of a hundredth of a point in the fixed-point floats
Sub == 10
\* batches have 0..MaxBatch items (above the ceiling of 20)
MaxBatch == 22

-----------------------------------------------------------------------------
(* Python strings *)

None == "None"

LowerLetters == "abcdefghijklmnopqrstuvwxyz"
UpperLetters == "ABCDEFGHIJKLMNOPQRSTUVWXYZ"

CharAt(s, i) == SubSeq(s, i, i)

UpperSet == {CharAt(UpperLetters, i) : i \in 1..26}
LowerSet == {CharAt(LowerLetters, i) : i \in 1..26}

ToLower == [c \in UpperSet |->
               CharAt(LowerLetters, CHOOSE i \in 1..26 : CharAt(UpperLetters, i) = c)]
ToUpper == [c \in LowerSet |->
               CharAt(UpperLetters, CHOOSE i \in 1..26 : CharAt(LowerLetters, i) = c)]

LowerChar(c) == IF c \in UpperSet THEN ToLower[c] ELSE c

UpperChar(c) == IF c \in LowerSet THEN ToUpper[c] ELSE c

\* str.lower(), character by character (the string is halved at each step)
RECURSIVE lower(_)
lower(s) ==
    IF Len(s) = 0 THEN ""
    ELSE IF Len(s) = 1 THEN LowerChar(s)
    ELSE LET h == Len(s) \div 2
         IN lower(SubSeq(s, 1, h)) \o lower(SubSeq(s, h + 1, Len(s)))

\* str.upper()
RECURSIVE upper(_)
upper(s) ==
    IF Len(s) = 0 THEN ""
    ELSE IF Len(s) = 1 THEN UpperChar(s)
    ELSE LET h == Len(s) \div 2
         IN upper(SubSeq(s, 1, h)) \o upper(SubSeq(s, h + 1, Len(s)))

\* Python's  t in s  for strings
Contains(s, t) ==
    \E i \in 1..(Len(s) - Len(t) + 1) : SubSeq(s, i, i + Len(t) - 1) = t

\* any(kw in text for kw in kws)
AnyIn(kws, text) == \E k \in 1..Len(kws) : Contains(text, kws[k])

\* len(s.split()): the number of maximal runs of non-blank characters
WordCount(s) ==
    Cardinality({i \in 1..Len(s) :
        /\ CharAt(s, i) # " "
        /\ (i = 1 \/ CharAt(s, i - 1) = " ")})

-----------------------------------------------------------------------------
(* src/models.py: the enums *)

AI            == "OpportunityDomain.AI"
DATA          == "OpportunityDomain.DATA"
CLOUD         == "OpportunityDomain.CLOUD"
CYBER         == "OpportunityDomain.CYBER"
IT_OPS        == "OpportunityDomain.IT_OPS"
SOFTWARE      == "OpportunityDomain.SOFTWARE"
MODERNIZATION == "OpportunityDomain.MODERNIZATION"
\* OpportunityDomain.OTHER (OTHER is a reserved word)
OTHER_        == "OpportunityDomain.OTHER"

OpportunityDomain == {AI, DATA, CLOUD, CYBER, IT_OPS, SOFTWARE, MODERNIZATION, OTHER_}

\* the value of a member of OpportunityDomain (what use_enum_values stores
\* when the model validates the field); a str that is no member is itself
DomainValue(d) ==
    CASE d = AI            -> "AI"
      [] d = DATA          -> "Data"
      [] d = CLOUD         -> "Cloud"
      [] d = CYBER         -> "Cybersecurity"
      [] d = IT_OPS        -> "IT Operations"
      [] d = SOFTWARE      -> "Software Engineering"
      [] d = MODERNIZATION -> "Modernization"
      [] d = OTHER_        -> "Other"
      [] OTHER             -> d

LOW    == "Complexity.LOW"
MEDIUM == "Complexity.MEDIUM"
HIGH   == "Complexity.HIGH"

Complexity == {LOW, MEDIUM, HIGH}

PT_MODERNIZATION == "ProjectType.MODERNIZATION"
PT_OPERATIONS    == "ProjectType.OPERATIONS"
PT_GREENFIELD    == "ProjectType.GREENFIELD"
PT_LEGACY        == "ProjectType.LEGACY"

ProjectType == {PT_MODERNIZATION, PT_OPERATIONS, PT_GREENFIELD, PT_LEGACY}

\* OpportunityScore has use_enum_values: the action is stored by value
BID      == "BID"
TEAM_SUB == "TEAM / SUB"
IGNORE   == "IGNORE"

RecommendedAction == {BID, TEAM_SUB, IGNORE}

-----------------------------------------------------------------------------
(* src/models.py: Opportunity.  description is the text the description  *)
(* starts with; pad_words counts the further words " w" that follow it,  *)
(* so that long descriptions need no long literal.                       *)

Opportunity(id, title, description, pad, agency, naics) ==
    [notice_id |-> id, title |-> title, description |-> description,
     pad_words |-> pad, agency |-> agency, naics |-> naics,
     primary_domain |-> None, secondary_domains |-> << >>,
     complexity |-> None, project_type |-> None, is_legacy |-> None]

ClassFields == {"primary_domain", "secondary_domains", "complexity",
                "project_type", "is_legacy"}

\* the five classification fields of a notice
Classification(o) == [f \in ClassFields |-> o[f]]

\* f"{opportunity.title} {opportunity.description}".lower(); one filler word
\* stands for all of them in a substring test
TextOf(o) ==
    lower(o.title \o " " \o o.description \o (IF o.pad_words > 0 THEN " w" ELSE ""))

\* len(opportunity.description.split())
DescriptionWords(o) == WordCount(o.description) + o.pad_words

-----------------------------------------------------------------------------
(* JSON values, as json.loads builds them *)

JNull      == [t |-> "null"]
JStr(s)    == [t |-> "str", v |-> s]
JNum(n)    == [t |-> "num", v |-> n]
JBool(b)   == [t |-> "bool", v |-> b]
JList(l)   == [t |-> "list", v |-> l]
JObj(f)    == [t |-> "obj", v |-> f]

\* the JSON object with no key
EmptyObj == JObj([k \in {} |-> JNull])

\* bool(x) of a parsed JSON value
Truthy(j) ==
    CASE j.t = "null" -> FALSE
      [] j.t = "str"  -> j.v # ""
      [] j.t = "num"  -> j.v # 0
      [] j.t = "bool" -> j.v
      [] j.t = "list" -> Len(j.v) > 0
      [] j.t = "obj"  -> DOMAIN j.v # {}

\* key in d
HasKey(d, k) == k \in DOMAIN d.v

\* d.get(k, default)
Get(d, k, default) == IF HasKey(d, k) THEN d.v[k] ELSE default

\* d with d[k] = x
Put(d, k, x) == JObj([key \in DOMAIN d.v \cup {k} |-> IF key = k THEN x ELSE d.v[key]])

\* A JSON value stored as is in a field of a notice
Stored(j) ==
    CASE j.t = "null" -> None
      [] j.t = "bool" -> IF j.v THEN "True" ELSE "False"
      [] j.t = "str"  -> j.v
      [] OTHER        -> "<" \o j.t \o ">"

-----------------------------------------------------------------------------
(* The completion collaborator.  A reply is what client.chat.completions   *)
(* .create does with one request: it raises, or it returns a content       *)
(* that is a body inside an optional code fence.  The body is either a     *)
(* JSON text (its parsed value is given) or no JSON at all.                *)

Raise           == [kind |-> "raise"]
NotJson(fence)  == [kind |-> "content", fence |-> fence, json |-> FALSE, value |-> JNull]
Json(fence, j)  == [kind |-> "content", fence |-> fence, json |-> TRUE, value |-> j]

\* no fence; ```json ... ```; ``` ... ```; ```<another tag> ... ```
Fences == {"none", "json", "bare", "tagged"}

\* Loads with a parse error answered by an empty object instead of raised
Loads_lenient(r) ==
    IF r.json /\ r.fence # "tagged"
    THEN [ok |-> TRUE, value |-> r.value]
    ELSE [ok |-> TRUE, value |-> EmptyObj]

\* The fence stripping of _ai_classify / _ai_score followed by json.loads:
\* text between "```json" and the next "```", else between the first two
\* "```" (a tag other than json stays in front of the body and breaks the
\* parse), else the content itself.
Loads(r) ==
    IF r.json /\ r.fence # "tagged"
    THEN [ok |-> TRUE, value |-> r.value]
    ELSE [ok |-> FALSE]

-----------------------------------------------------------------------------
(* src/ai_classifier.py *)

\* domain_mapping, in insertion order
domain_mapping == <<
    <<"AI", AI>>, <<"AI/ML", AI>>, <<"MACHINE LEARNING", AI>>, <<"ML", AI>>,
    <<"DATA", DATA>>, <<"DATA ANALYTICS", DATA>>,
    <<"DATA ANALYTICS/ENGINEERING", DATA>>, <<"DATA ENGINEERING", DATA>>,
    <<"CLOUD", CLOUD>>, <<"CLOUD ARCHITECTURE", CLOUD>>,
    <<"CLOUD ARCHITECTURE & MIGRATION", CLOUD>>, <<"CLOUD MIGRATION", CLOUD>>,
    <<"CYBERSECURITY", CYBER>>, <<"CYBERSECURITY/ZERO TRUST", CYBER>>,
    <<"ZERO TRUST", CYBER>>, <<"CYBER", CYBER>>,
    <<"DEVSECOPS", SOFTWARE>>, <<"DEVSECOPS/AUTOMATION", SOFTWARE>>,
    <<"DEVOPS", SOFTWARE>>, <<"AUTOMATION", SOFTWARE>>,
    <<"IT OPERATIONS", IT_OPS>>, <<"IT OPS", IT_OPS>>,
    <<"SOFTWARE", SOFTWARE>>, <<"SOFTWARE ENGINEERING", SOFTWARE>>,
    <<"MODERNIZATION", MODERNIZATION>> >>

\* _normalize_domain on a str
\* normalize_domain_str that looks the string up as it is written
normalize_domain_str_cased(domain) ==
    IF domain = "" THEN None
    ELSE LET hits == {k \in 1..Len(domain_mapping) :
                         Contains(domain, domain_mapping[k][1])}
         IN IF hits = {} THEN OTHER_
            ELSE domain_mapping[CHOOSE k \in hits : \A h \in hits : k <= h][2]

\* _normalize_domain on a non-empty str
normalize_domain_str(domain) ==
    IF domain = "" THEN None
    ELSE LET domain_upper == upper(domain)
             hits == {k \in 1..Len(domain_mapping) :
                         Contains(domain_upper, domain_mapping[k][1])}
         IN IF hits = {} THEN OTHER_
            ELSE domain_mapping[CHOOSE k \in hits : \A h \in hits : k <= h][2]

\* _normalize_domain on any parsed value: a falsy one gives None, a truthy
\* one that is no str has no upper() and raises
_normalize_domain(j) ==
    IF ~Truthy(j) THEN [ok |-> TRUE, value |-> None]
    ELSE IF j.t # "str" THEN [ok |-> FALSE]
    ELSE [ok |-> TRUE, value |-> normalize_domain_str(j.v)]

_normalize_complexity(j) ==
    IF ~Truthy(j) THEN [ok |-> TRUE, value |-> MEDIUM]
    ELSE IF j.t # "str" THEN [ok |-> FALSE]
    ELSE LET complexity_upper == upper(j.v)
         IN [ok |-> TRUE,
             value |-> IF Contains(complexity_upper, "HIGH") THEN HIGH
                       ELSE IF Contains(complexity_upper, "LOW") THEN LOW
                       ELSE MEDIUM]

_normalize_project_type(j) ==
    IF ~Truthy(j) THEN [ok |-> TRUE, value |-> None]
    ELSE IF j.t # "str" THEN [ok |-> FALSE]
    ELSE LET pt_upper == upper(j.v)
         IN [ok |-> TRUE,
             value |-> IF Contains(pt_upper, "MODERNIZATION") THEN PT_MODERNIZATION
                       ELSE IF Contains(pt_upper, "OPERATIONS") THEN PT_OPERATIONS
                       ELSE IF Contains(pt_upper, "GREENFIELD") THEN PT_GREENFIELD
                       ELSE IF Contains(pt_upper, "LEGACY") THEN PT_LEGACY
                       ELSE None]

\* [self._normalize_domain(d) for d in classification.get("secondary_domains", [])]
\* a list is iterated by element and a str by character; None, a number and
\* a bool are not iterable
NormalizeSecondary(j) ==
    LET elems == CASE j.t = "list" -> j.v
                   [] j.t = "str"  -> [i \in 1..Len(j.v) |-> JStr(CharAt(j.v, i))]
                   [] OTHER        -> << >>
        each == [i \in 1..Len(elems) |-> _normalize_domain(elems[i])]
    IN IF j.t \notin {"list", "str"} \/ \E i \in 1..Len(each) : ~each[i].ok
       THEN [ok |-> FALSE]
       ELSE [ok |-> TRUE, value |-> [i \in 1..Len(each) |-> each[i].value]]

\* _ai_classify: one request; the dict of normalized fields, or an exception
_ai_classify(opportunity, r) ==
    LET Normalized(classification, pd, sd, cx, pt) ==
            IF ~pd.ok \/ ~sd.ok \/ ~cx.ok \/ ~pt.ok THEN [ok |-> FALSE]
            ELSE [ok |-> TRUE,
                  value |-> [primary_domain    |-> pd.value,
                             secondary_domains |-> sd.value,
                             complexity        |-> cx.value,
                             project_type      |-> pt.value,
                             is_legacy |-> Stored(Get(classification, "is_legacy", JBool(FALSE)))]]
        Parsed(parsed) ==
            IF ~parsed.ok THEN [ok |-> FALSE]
            ELSE IF parsed.value.t # "obj" THEN [ok |-> FALSE]
            ELSE Normalized(parsed.value,
                    _normalize_domain(Get(parsed.value, "primary_domain", JNull)),
                    NormalizeSecondary(Get(parsed.value, "secondary_domains", JList(<< >>))),
                    _normalize_complexity(Get(parsed.value, "complexity", JNull)),
                    _normalize_project_type(Get(parsed.value, "project_type", JNull)))
    IN IF r.kind = "raise" THEN [ok |-> FALSE] ELSE Parsed(Loads(r))

non_it_terms == <<
    "grounds maintenance", "custodial", "janitorial", "cleaning", "waste collection",
    "valve", "cable assembly", "bracket", "cylinder", "window", "disc brake",
    "seal", "hinge", "elbow pipe", "cap shaft", "link assembly", "support structural",
    "hose exhaust", "fire pump", "water purification", "fume hood", "cabinet",
    "countertop", "barracks", "pier", "trailer", "apparel", "ammunition" >>

\* domain_groups with the Data group tested before the AI group
domain_groups_data_first == <<
    <<DATA, <<"data analytics", "data engineering", "data warehouse", "data lake",
              "business intelligence", "bi ", "etl", "data pipeline">> >>,
    <<AI, <<"artificial intelligence", "machine learning", "ml model", "llm",
            "rag", "nlp", "neural network", "deep learning">> >>,
    <<CLOUD, <<"cloud migration", "cloud architecture", "aws ", "azure ", "gcp ",
               "cloud platform", "cloud infrastructure">> >>,
    <<CYBER, <<"cybersecurity", "zero trust", "fedramp", "fisma",
               "security operations", "soc", "siem", "iam">> >>,
    <<SOFTWARE, <<"software development", "devops", "devsecops", "ci/cd",
                  "kubernetes", "docker", "terraform", "automation">> >>,
    <<MODERNIZATION, <<"modernization", "legacy system", "mainframe migration",
                       "system upgrade">> >> >>

\* the six keyword groups, in the order the code tests them
domain_groups == <<
    <<AI, <<"artificial intelligence", "machine learning", "ml model", "llm",
            "rag", "nlp", "neural network", "deep learning">> >>,
    <<DATA, <<"data analytics", "data engineering", "data warehouse", "data lake",
              "business intelligence", "bi ", "etl", "data pipeline">> >>,
    <<CLOUD, <<"cloud migration", "cloud architecture", "aws ", "azure ", "gcp ",
               "cloud platform", "cloud infrastructure">> >>,
    <<CYBER, <<"cybersecurity", "zero trust", "fedramp", "fisma",
               "security operations", "soc", "siem", "iam">> >>,
    <<SOFTWARE, <<"software development", "devops", "devsecops", "ci/cd",
                  "kubernetes", "docker", "terraform", "automation">> >>,
    <<MODERNIZATION, <<"modernization", "legacy system", "mainframe migration",
                       "system upgrade">> >> >>

\* the list "domains" after the six tests
RECURSIVE MatchedDomains(_, _)
MatchedDomains(text, g) ==
    IF g > Len(domain_groups) THEN << >>
    ELSE (IF AnyIn(domain_groups[g][2], text) THEN <<domain_groups[g][1]>> ELSE << >>)
         \o MatchedDomains(text, g + 1)

\* ClassifyText with the two word counts compared inclusively
ClassifyText_inclusive(opportunity, text, domains, word_count) ==
    LET WithType(o) ==
            IF Contains(text, "modernization") \/ Contains(text, "migration")
               \/ Contains(text, "legacy")
            THEN [o EXCEPT !.project_type = PT_MODERNIZATION, !.is_legacy = "True"]
            ELSE IF Contains(text, "operations") \/ Contains(text, "support")
                    \/ Contains(text, "maintenance")
            THEN [o EXCEPT !.project_type = PT_OPERATIONS]
            ELSE IF Contains(text, "new") \/ Contains(text, "development")
                    \/ Contains(text, "build")
            THEN [o EXCEPT !.project_type = PT_GREENFIELD]
            ELSE o
        WithComplexity(o) ==
            WithType([o EXCEPT !.complexity =
                IF word_count >= 1000 \/ Contains(text, "complex") \/ Contains(text, "enterprise")
                THEN HIGH
                ELSE IF word_count <= 200 THEN LOW ELSE MEDIUM])
    IN IF domains # << >>
       THEN WithComplexity([opportunity EXCEPT !.primary_domain = domains[1],
                                               !.secondary_domains = Tail(domains)])
       ELSE WithComplexity([opportunity EXCEPT !.primary_domain = OTHER_])

\* the statements of _rule_based_classify after the exclusion test
ClassifyText(opportunity, text, domains, word_count) ==
    LET WithType(o) ==
            IF Contains(text, "modernization") \/ Contains(text, "migration")
               \/ Contains(text, "legacy")
            THEN [o EXCEPT !.project_type = PT_MODERNIZATION, !.is_legacy = "True"]
            ELSE IF Contains(text, "operations") \/ Contains(text, "support")
                    \/ Contains(text, "maintenance")
            THEN [o EXCEPT !.project_type = PT_OPERATIONS]
            ELSE IF Contains(text, "new") \/ Contains(text, "development")
                    \/ Contains(text, "build")
            THEN [o EXCEPT !.project_type = PT_GREENFIELD]
            ELSE o
        WithComplexity(o) ==
            WithType([o EXCEPT !.complexity =
                IF word_count > 1000 \/ Contains(text, "complex") \/ Contains(text, "enterprise")
                THEN HIGH
                ELSE IF word_count < 200 THEN LOW ELSE MEDIUM])
    IN IF domains # << >>
       THEN WithComplexity([opportunity EXCEPT !.primary_domain = domains[1],
                                               !.secondary_domains = Tail(domains)])
       ELSE WithComplexity([opportunity EXCEPT !.primary_domain = OTHER_])

\* _rule_based_classify that appends the domains it finds to secondary_domains
_rule_based_classify_accumulating(opportunity) ==
    LET Tested(text, o) ==
            IF AnyIn(non_it_terms, text)
            THEN [opportunity EXCEPT !.primary_domain = OTHER_, !.complexity = LOW]
            ELSE [o EXCEPT !.secondary_domains =
                               opportunity.secondary_domains \o MatchedDomains(text, 1)]
    IN Tested(TextOf(opportunity),
              ClassifyText(opportunity, TextOf(opportunity),
                           MatchedDomains(TextOf(opportunity), 1),
                           DescriptionWords(opportunity)))

\* _rule_based_classify with the exclusion test made last and setting the
\* domain only
_rule_based_classify_late(opportunity) ==
    LET Tested(text, o) ==
            IF AnyIn(non_it_terms, text) THEN [o EXCEPT !.primary_domain = OTHER_] ELSE o
    IN Tested(TextOf(opportunity),
              ClassifyText(opportunity, TextOf(opportunity),
                           MatchedDomains(TextOf(opportunity), 1),
                           DescriptionWords(opportunity)))

\* _rule_based_classify: the notice object after the call (the same object
\* is returned); fields the code does not assign keep their values
_rule_based_classify(opportunity) ==
    LET Tested(text) ==
            IF AnyIn(non_it_terms, text)
            THEN [opportunity EXCEPT !.primary_domain = OTHER_, !.complexity = LOW]
            ELSE ClassifyText(opportunity, text, MatchedDomains(text, 1),
                              DescriptionWords(opportunity))
    IN Tested(TextOf(opportunity))

\* classify_opportunity without its try / except
classify_opportunity_unguarded(has_client, opportunity, r) ==
    LET Classified(classification) ==
            IF classification.ok
            THEN [opp |-> [opportunity EXCEPT
                       !.primary_domain    = classification.value.primary_domain,
                       !.secondary_domains = classification.value.secondary_domains,
                       !.complexity        = classification.value.complexity,
                       !.project_type      = classification.value.project_type,
                       !.is_legacy         = classification.value.is_legacy],
                  requests |-> 1, rule_runs |-> 0, raised |-> FALSE]
            ELSE [opp |-> opportunity, requests |-> 1, rule_runs |-> 0, raised |-> TRUE]
    IN IF ~has_client
       THEN [opp |-> _rule_based_classify(opportunity), requests |-> 0, rule_runs |-> 1,
             raised |-> FALSE]
       ELSE Classified(_ai_classify(opportunity, r))

\* classify_opportunity: the notice object after the call, with the number
\* of requests sent and of rule-based runs made
classify_opportunity(has_client, opportunity, r) ==
    LET Classified(classification) ==
            IF classification.ok
            THEN [opp |-> [opportunity EXCEPT
                       !.primary_domain    = classification.value.primary_domain,
                       !.secondary_domains = classification.value.secondary_domains,
                       !.complexity        = classification.value.complexity,
                       !.project_type      = classification.value.project_type,
                       !.is_legacy         = classification.value.is_legacy],
                  requests |-> 1, rule_runs |-> 0, raised |-> FALSE]
            ELSE [opp |-> _rule_based_classify(opportunity), requests |-> 1, rule_runs |-> 1,
                  raised |-> FALSE]
    IN IF ~has_client
       THEN [opp |-> _rule_based_classify(opportunity), requests |-> 0, rule_runs |-> 1,
             raised |-> FALSE]
       ELSE Classified(_ai_classify(opportunity, r))

-----------------------------------------------------------------------------
(* Fixed-point floats *)

\* units of a breakdown factor per point
Point == 100 * Sub

\* a whole number of points as a factor
Pts(n) == n * Point

\* round-half-even of x / unit, for x >= 0: Python's round() and ".0f"
RoundDiv(x, unit) ==
    LET q == x \div unit
        r == x % unit
    IN IF 2 * r > unit \/ (2 * r = unit /\ q % 2 = 1) THEN q + 1 ELSE q

Digits == "0123456789"

IsDigits(s) == s # "" /\ \A i \in 1..Len(s) : Contains(Digits, CharAt(s, i))

DigitValue(c) == (CHOOSE i \in 1..10 : CharAt(Digits, i) = c) - 1

RECURSIVE IntOfDigits(_)
IntOfDigits(s) ==
    IF s = "" THEN 0
    ELSE 10 * IntOfDigits(SubSeq(s, 1, Len(s) - 1)) + DigitValue(CharAt(s, Len(s)))

\* float(value) of a parsed JSON value, as a factor: a number converts, a
\* bool is 1.0 or 0.0, a str of digits is parsed (any other str drawn by this
\* model is no number and raises ValueError), None, list and dict raise
\* TypeError
Float(j) ==
    CASE j.t = "num"  -> [ok |-> TRUE, value |-> j.v]
      [] j.t = "bool" -> [ok |-> TRUE, value |-> IF j.v THEN Pts(1) ELSE 0]
      [] j.t = "str" /\ IsDigits(j.v) -> [ok |-> TRUE, value |-> Pts(IntOfDigits(j.v))]
      [] OTHER -> [ok |-> FALSE]

Max(a, b) == IF a >= b THEN a ELSE b
Min(a, b) == IF a <= b THEN a ELSE b

-----------------------------------------------------------------------------
(* src/models.py: CapabilityProfile, FitScoreBreakdown, OpportunityScore *)

CapabilityProfile(name, core_domains, technical_skills, naics, preferred_agencies) ==
    [company_name |-> name, core_domains |-> core_domains,
     technical_skills |-> technical_skills, naics |-> naics,
     preferred_agencies |-> preferred_agencies]

Factors == {"domain_match", "naics_match", "technical_skill_match",
            "agency_alignment", "contract_type_fit", "strategic_value"}

\* FitScoreBreakdown with every field optional, 0 by default
FitScoreBreakdown_defaults(d) ==
    IF \A f \in Factors \cap DOMAIN d : d[f] >= 0 /\ d[f] <= Pts(100)
    THEN [ok |-> TRUE, value |-> [f \in Factors |-> IF f \in DOMAIN d THEN d[f] ELSE 0]]
    ELSE [ok |-> FALSE]

\* FitScoreBreakdown(**d) on a dict of floats: every field is required and
\* must lie in [0, 100]; keys that are no field are ignored
FitScoreBreakdown(d) ==
    IF /\ Factors \subseteq DOMAIN d
       /\ \A f \in Factors : d[f] >= 0 /\ d[f] <= Pts(100)
    THEN [ok |-> TRUE, value |-> [f \in Factors |-> d[f]]]
    ELSE [ok |-> FALSE]

IsStr(j) == j.t = "str"

IsStrList(j) == j.t = "list" /\ \A i \in 1..Len(j.v) : IsStr(j.v[i])

\* OpportunityScore(...): explanation and reasoning are str, risk_factors a
\* list of str, fit_score within [0, 100]; the notice and the profile are
\* instances of their models
OpportunityScore(opportunity, prof, fit_score, breakdown, explanation, risk_factors, recommended_action, reasoning) ==
    IF /\ IsStr(explanation) /\ IsStr(reasoning) /\ IsStrList(risk_factors)
       /\ fit_score >= 0 /\ fit_score <= 100 * 100
    THEN [ok |-> TRUE,
          value |-> [opportunity |-> opportunity,
                     capability_profile |-> prof,
                     fit_score |-> fit_score,
                     breakdown |-> breakdown,
                     explanation |-> explanation.v,
                     risk_factors |-> [i \in 1..Len(risk_factors.v) |-> risk_factors.v[i].v],
                     recommended_action |-> recommended_action,
                     reasoning |-> reasoning.v]]
    ELSE [ok |-> FALSE]

-----------------------------------------------------------------------------
(* src/ai_scoring.py *)

\* WEIGHTS with the first two weights exchanged
WEIGHTS_swapped ==
    [domain_match |-> 20, naics_match |-> 30, technical_skill_match |-> 20,
     agency_alignment |-> 10, contract_type_fit |-> 10, strategic_value |-> 10]

\* WEIGHTS, in hundredths
WEIGHTS == [domain_match |-> 30, naics_match |-> 20, technical_skill_match |-> 20,
            agency_alignment |-> 10, contract_type_fit |-> 10, strategic_value |-> 10]

\* the weighted sum of a breakdown, in units of 1/(100 * Point) point
WeightedFit(breakdown) ==
    breakdown.domain_match * WEIGHTS.domain_match +
    breakdown.naics_match * WEIGHTS.naics_match +
    breakdown.technical_skill_match * WEIGHTS.technical_skill_match +
    breakdown.agency_alignment * WEIGHTS.agency_alignment +
    breakdown.contract_type_fit * WEIGHTS.contract_type_fit +
    breakdown.strategic_value * WEIGHTS.strategic_value

\* ActionOf with strict comparisons
ActionOf_strict(fit_score) ==
    IF fit_score > 70 * 100 * Point THEN BID
    ELSE IF fit_score > 50 * 100 * Point THEN TEAM_SUB
    ELSE IGNORE

\* the threshold test on the unrounded weighted sum
ActionOf(fit_score) ==
    IF fit_score >= 70 * 100 * Point THEN BID
    ELSE IF fit_score >= 50 * 100 * Point THEN TEAM_SUB
    ELSE IGNORE

\* round(fit_score, 2), in hundredths of a point
Round2(fit_score) == RoundDiv(fit_score, Point)

\* ClampAll that converts and does not clamp
ClampAll_unclamped(b) ==
    IF \E k \in DOMAIN b : ~Float(b[k]).ok
    THEN [ok |-> FALSE]
    ELSE [ok |-> TRUE, value |-> [k \in DOMAIN b |-> Float(b[k]).value]]

\* the loop "breakdown[key] = max(0, min(100, float(value)))"
ClampAll(b) ==
    IF \E k \in DOMAIN b : ~Float(b[k]).ok
    THEN [ok |-> FALSE]
    ELSE [ok |-> TRUE,
          value |-> [k \in DOMAIN b |-> Max(0, Min(Pts(100), Float(b[k]).value))]]

\* d.setdefault(k, x), as the "if k not in score_data" statements do
SetDefault(d, k, x) == IF HasKey(d, k) THEN d ELSE Put(d, k, x)

\* score_data after "Ensure all required keys exist with defaults"
WithDefaults(d0) ==
    LET Rest(d) == SetDefault(SetDefault(d, "reasoning", d.v["explanation"]),
                              "risk_factors", JList(<< >>))
    IN Rest(SetDefault(SetDefault(d0, "breakdown", EmptyObj),
                       "explanation", JStr("AI classification completed")))

\* _ai_score: one request; score_data with its defaults set and its
\* breakdown (a dict of floats) clamped, or an exception
_ai_score(opportunity, prof, r) ==
    LET Validated(score_data) ==
            IF score_data.v["breakdown"].t # "obj" THEN [ok |-> FALSE]
            ELSE LET Clamped(breakdown) ==
                         IF ~breakdown.ok THEN [ok |-> FALSE]
                         ELSE [ok |-> TRUE,
                               value |-> [breakdown    |-> breakdown.value,
                                          explanation  |-> score_data.v["explanation"],
                                          reasoning    |-> score_data.v["reasoning"],
                                          risk_factors |-> score_data.v["risk_factors"]]]
                 IN Clamped(ClampAll(score_data.v["breakdown"].v))
        Parsed(parsed) ==
            IF ~parsed.ok THEN [ok |-> FALSE]
            ELSE IF parsed.value.t # "obj" THEN [ok |-> FALSE]
            ELSE Validated(WithDefaults(parsed.value))
    IN IF r.kind = "raise" THEN [ok |-> FALSE] ELSE Parsed(Loads(r))

domain_keywords == <<
    <<"ai",       <<"ai", "ml", "machine learning", "artificial intelligence">> >>,
    <<"data",     <<"data", "analytics", "engineering", "warehouse", "bi">> >>,
    <<"cloud",    <<"cloud", "migration", "architecture", "aws", "azure", "gcp">> >>,
    <<"cyber",    <<"cyber", "security", "zero trust", "fedramp", "fisma">> >>,
    <<"software", <<"devops", "devsecops", "automation", "ci/cd", "software">> >> >>

\* one core-domain label of the profile against the notice's domain
DomainOverlaps(domain, opp_domain) ==
    LET domain_lower == lower(domain)
    IN \/ Contains(opp_domain, domain_lower)
       \/ Contains(domain_lower, opp_domain)
       \/ \E g \in 1..Len(domain_keywords) :
             /\ AnyIn(domain_keywords[g][2], domain_lower)
             /\ AnyIn(domain_keywords[g][2], opp_domain)

DomainMatch(opportunity, prof) ==
    LET opp_domain == IF opportunity.primary_domain \notin {None, ""}
                      THEN lower(opportunity.primary_domain) ELSE ""
    IN IF \E k \in 1..Len(prof.core_domains) :
             DomainOverlaps(prof.core_domains[k], opp_domain)
       THEN Pts(80) ELSE Pts(30)

Range(seq) == {seq[i] : i \in 1..Len(seq)}

\* NaicsMatch that compares the first code of each list only
NaicsMatch_first(opportunity, prof) ==
    IF Len(opportunity.naics) > 0 /\ Len(prof.naics) > 0
    THEN IF opportunity.naics[1] = prof.naics[1] THEN Pts(100) ELSE Pts(20)
    ELSE Pts(50)

\* naics_match of _rule_based_score
NaicsMatch(opportunity, prof) ==
    IF Len(opportunity.naics) > 0 /\ Len(prof.naics) > 0
    THEN IF Range(opportunity.naics) \cap Range(prof.naics) # {} THEN Pts(100) ELSE Pts(20)
    ELSE Pts(50)

\* TechnicalSkillMatch that compares the skill as it is written
TechnicalSkillMatch_cased(opportunity, prof) ==
    LET text == TextOf(opportunity)
        skill_matches == Cardinality({k \in 1..Len(prof.technical_skills) :
                             Contains(text, prof.technical_skills[k])})
        total_skills == IF Len(prof.technical_skills) > 0
                        THEN Len(prof.technical_skills) ELSE 1
    IN IF total_skills > 0
       THEN Min(Pts(100), (skill_matches * Pts(100)) \div total_skills)
       ELSE Pts(50)

\* technical_skill_match of _rule_based_score
TechnicalSkillMatch(opportunity, prof) ==
    LET text == TextOf(opportunity)
        skill_matches == Cardinality({k \in 1..Len(prof.technical_skills) :
                             Contains(text, lower(prof.technical_skills[k]))})
        total_skills == IF Len(prof.technical_skills) > 0
                        THEN Len(prof.technical_skills) ELSE 1
    IN IF total_skills > 0
       THEN Min(Pts(100), (skill_matches * Pts(100)) \div total_skills)
       ELSE Pts(50)

AgencyMatch(opportunity, prof) ==
    LET opp_agency == lower(opportunity.agency)
    IN IF \E k \in 1..Len(prof.preferred_agencies) :
             \/ Contains(opp_agency, lower(prof.preferred_agencies[k]))
             \/ Contains(lower(prof.preferred_agencies[k]), opp_agency)
       THEN Pts(100) ELSE Pts(50)

\* f"{x:.0f}"
Fmt0(x) == ToString(RoundDiv(x, Point))

\* f"Domain match: {domain_match:.0f}%, NAICS: {naics_match:.0f}%, Skills: ..."
Explanation(breakdown) ==
    JStr("Domain match: " \o Fmt0(breakdown.domain_match)
         \o "%, NAICS: " \o Fmt0(breakdown.naics_match)
         \o "%, Skills: " \o Fmt0(breakdown.technical_skill_match) \o "%")

\* RuleBasedAttempt with its own thresholds, strict ones
RuleBasedAttempt_strict(opportunity, prof) ==
    LET Scored(breakdown, fit_score, explanation) ==
            OpportunityScore(opportunity, prof, Round2(fit_score), breakdown, explanation,
                             JList(<<JStr("Rule-based scoring used (AI unavailable)")>>),
                             ActionOf_strict(fit_score), explanation)
        Built(breakdown) == Scored(breakdown, WeightedFit(breakdown), Explanation(breakdown))
    IN Built(FitScoreBreakdown(
                 [domain_match          |-> DomainMatch(opportunity, prof),
                  naics_match           |-> NaicsMatch(opportunity, prof),
                  technical_skill_match |-> TechnicalSkillMatch(opportunity, prof),
                  agency_alignment      |-> AgencyMatch(opportunity, prof),
                  contract_type_fit     |-> Pts(70),
                  strategic_value       |-> Pts(60)]).value)

\* _rule_based_score: the OpportunityScore it builds; the construction is
\* tried a second time with the profile rebuilt from its dict, and an
\* exception of the second try leaves the function
RuleBasedAttempt(opportunity, prof) ==
    LET Scored(breakdown, fit_score, explanation) ==
            OpportunityScore(opportunity, prof, Round2(fit_score), breakdown, explanation,
                             JList(<<JStr("Rule-based scoring used (AI unavailable)")>>),
                             ActionOf(fit_score), explanation)
        Built(breakdown) == Scored(breakdown, WeightedFit(breakdown), Explanation(breakdown))
    IN Built(FitScoreBreakdown(
                 [domain_match          |-> DomainMatch(opportunity, prof),
                  naics_match           |-> NaicsMatch(opportunity, prof),
                  technical_skill_match |-> TechnicalSkillMatch(opportunity, prof),
                  agency_alignment      |-> AgencyMatch(opportunity, prof),
                  contract_type_fit     |-> Pts(70),
                  strategic_value       |-> Pts(60)]).value)

\* _rule_based_score: the OpportunityScore it returns
_rule_based_score(opportunity, prof) == RuleBasedAttempt(opportunity, prof).value

\* RuleBasedCall made after the request, if there was one, was sent again
RuleBasedCall_retried(opportunity, prof, n) ==
    IF RuleBasedAttempt(opportunity, prof).ok
    THEN [score |-> _rule_based_score(opportunity, prof),
          requests |-> n + n, rule_runs |-> 1, raised |-> FALSE]
    ELSE [score |-> None, requests |-> n + n, rule_runs |-> 1, raised |-> TRUE]

\* a call of _rule_based_score made after n requests: what it returns, or
\* its exception
RuleBasedCall(opportunity, prof, n) ==
    IF RuleBasedAttempt(opportunity, prof).ok
    THEN [score |-> _rule_based_score(opportunity, prof),
          requests |-> n, rule_runs |-> 1, raised |-> FALSE]
    ELSE [score |-> None, requests |-> n, rule_runs |-> 1, raised |-> TRUE]

\* score_opportunity: the OpportunityScore returned, with the number of
\* requests sent and of rule-based runs made
score_opportunity(has_client, opportunity, prof, r) ==
    LET Fallback(n) == RuleBasedCall(opportunity, prof, n)
        Made(made) ==
            IF made.ok
            THEN [score |-> made.value, requests |-> 1, rule_runs |-> 0, raised |-> FALSE]
            ELSE Fallback(1)
        Weighted(score_data, breakdown, fit_score) ==
            Made(OpportunityScore(opportunity, prof, Round2(fit_score), breakdown,
                                  score_data.explanation, score_data.risk_factors,
                                  ActionOf(fit_score), score_data.reasoning))
        Built(score_data, breakdown) ==
            IF ~breakdown.ok THEN Fallback(1)
            ELSE Weighted(score_data, breakdown.value, WeightedFit(breakdown.value))
        Scored(score_data) ==
            IF ~score_data.ok THEN Fallback(1)
            ELSE IF DOMAIN score_data.value.breakdown = {} THEN Fallback(1)
            ELSE Built(score_data.value, FitScoreBreakdown(score_data.value.breakdown))
    IN IF ~has_client THEN Fallback(0)
       ELSE Scored(_ai_score(opportunity, prof, r))

\* max_ai_score of score_batch
max_ai_score == 20

\* score_batch_item without the ceiling
score_batch_item_unbounded(has_client, i, opportunity, prof, r) ==
    IF ~has_client
    THEN RuleBasedCall(opportunity, prof, 0)
    ELSE score_opportunity(has_client, opportunity, prof, r)

\* one iteration of the loop of score_batch on item i (0-based)
score_batch_item(has_client, i, opportunity, prof, r) ==
    IF ~has_client
    THEN RuleBasedCall(opportunity, prof, 0)
    ELSE IF i < max_ai_score
    THEN score_opportunity(has_client, opportunity, prof, r)
    ELSE RuleBasedCall(opportunity, prof, 0)

\* one iteration of the comprehension of classify_batch
classify_batch_item(has_client, i, opportunity, r) ==
    classify_opportunity(has_client, opportunity, r)

-----------------------------------------------------------------------------
(* Inputs: notices and profiles *)

\* a notice that an earlier pass classified
AlreadyClassified(o, pd, sd, cx, pt, legacy) ==
    [o EXCEPT !.primary_domain = pd, !.secondary_domains = sd, !.complexity = cx,
              !.project_type = pt, !.is_legacy = legacy]

NoticeML ==
    Opportunity("ML", "Machine Learning Platform",
                "Cloud migration of a legacy system with data analytics", 0,
                "Department of Defense", <<"541511">>)
NoticeJanitor ==
    Opportunity("JAN", "Janitorial Services",
                "custodial support for an enterprise cloud migration", 0,
                "General Services Administration", <<"561720">>)
NoticeFurniture ==
    Opportunity("FUR", "Office Furniture", "chairs and desks", 0, "", << >>)
NoticeDevOps ==
    Opportunity("DEV", "Enterprise DevOps Support", "ci/cd pipelines in Python on AWS", 0,
                "Air Force", <<"541512", "541519">>)
NoticeZeroTrust ==
    Opportunity("ZT", "Zero Trust Architecture", "build FedRAMP controls", 250,
                "DHS", <<"541519">>)

\* an excluded term with domain keywords, "complex", "enterprise" and a
\* description of more than 1000 words
NoticeValve ==
    Opportunity("VAL", "Complex Valve Telemetry", "enterprise machine learning on AWS", 1200,
                "Navy", <<"332911">>)

\* with ProfileCyber the rule-based factors are 80, 100, 40, 50, 70, 60
NoticePilot ==
    Opportunity("PIL", "Zero Trust Pilot", "FedRAMP review", 0, "NASA", <<"541519">>)

\* a notice without any keyword whose description has n words
LengthNotice(n) ==
    Opportunity("LEN" \o ToString(n), "Records Portal", "help desk", n - 2, "GSA", << >>)

\* descriptions at and next to the two word counts the complexity turns on
LengthNotices == {LengthNotice(n) : n \in {199, 200, 201, 1000, 1001}}

Notices ==
    {NoticeML, NoticeJanitor, NoticeFurniture, NoticeDevOps, NoticeZeroTrust, NoticePilot,
     AlreadyClassified(NoticeValve, CYBER, <<AI>>, HIGH, PT_GREENFIELD, "False"),
     AlreadyClassified(NoticeFurniture, AI, <<CLOUD>>, HIGH, PT_LEGACY, "True"),
     AlreadyClassified(NoticeZeroTrust, "Cybersecurity", <<"Cloud">>, "Medium", None, "False")}

ProfileOnyx ==
    CapabilityProfile("Onyx Government Services",
                      <<"AI/ML", "Cloud Architecture & Migration">>,
                      <<"Python", "AWS", "Kubernetes">>,
                      <<"541511", "541512">>, <<"DoD", "Air Force">>)
ProfileSparse ==
    CapabilityProfile("Sparse", << >>, << >>, << >>, << >>)
ProfileCyber ==
    CapabilityProfile("Cyber Co", <<"Cybersecurity/Zero Trust">>,
                      <<"FedRAMP", "Zero Trust", "SIEM", "Splunk", "controls">>,
                      <<"541519">>, <<"Department of Defense", "DHS">>)

\* every skill occurs in the text of NoticeDevOps
ProfileDev ==
    CapabilityProfile("Dev Shop", <<"DevSecOps/Automation">>, <<"CI/CD", "Python">>,
                      << >>, <<"Air Force">>)

Profiles == {ProfileOnyx, ProfileSparse, ProfileCyber, ProfileDev}

-----------------------------------------------------------------------------
(* Inputs: what the completion collaborator may answer *)

\* the function f with key k removed
Without(f, k) == [key \in DOMAIN f \ {k} |-> f[key]]

\* the function f with f[k] = x
With(f, k, x) == [key \in DOMAIN f \cup {k} |-> IF key = k THEN x ELSE f[key]]

StrList(l) == JList([i \in 1..Len(l) |-> JStr(l[i])])

ClassificationA ==
    [primary_domain |-> JStr("Cloud"), secondary_domains |-> StrList(<<"AI", "Data">>),
     complexity |-> JStr("High"), project_type |-> JStr("Greenfield"),
     is_legacy |-> JBool(FALSE)]

ClassificationB ==
    [primary_domain |-> JStr("machine learning"),
     secondary_domains |-> StrList(<<"Zero Trust", "AI/ML", "robotics">>),
     complexity |-> JStr("low"), project_type |-> JStr("Legacy system"),
     is_legacy |-> JBool(TRUE)]

\* the eight labels of the enum, as written, in upper and in lower case
DomainLabels ==
    UNION {{JStr(DomainValue(d)), JStr(upper(DomainValue(d))), JStr(lower(DomainValue(d)))} :
              d \in OpportunityDomain}

\* values a field of the answer may have instead
ClassificationValues ==
    [primary_domain    |-> {JNull, JStr(""), JStr("Quantum"), JNum(5), JStr("LLM"),
                            JStr("ML"), JStr("fedramp"), JStr("Zero Trust"),
                            JStr("Mainframe")} \cup DomainLabels,
     secondary_domains |-> {JNull, JList(<< >>), JStr("AI"), StrList(<<"Cloud", "Cloud">>),
                            JList(<<JNull, JStr("Data")>>)},
     complexity        |-> {JNull, JStr("very high"), JNum(3)},
     project_type      |-> {JNull, JStr("Research"), JBool(TRUE)},
     is_legacy         |-> {JNull, JStr("yes")}]

ClassificationObjects ==
    {ClassificationA, ClassificationB, [k \in {} |-> JNull]}
    \cup {Without(b, f) : b \in {ClassificationA, ClassificationB}, f \in ClassFields}
    \cup UNION {{With(b, f, x) : x \in ClassificationValues[f]} :
                   b \in {ClassificationA}, f \in ClassFields}

ClassifyReplies ==
    {Raise}
    \cup {NotJson(f) : f \in Fences}
    \cup {Json(f, JObj(ClassificationA)) : f \in Fences}
    \cup {Json("none", JObj(o)) : o \in ClassificationObjects}
    \cup {Json("json", JList(<<JObj(ClassificationA)>>)), Json("none", JStr("Cloud")),
          Json("none", JNull)}

\* a breakdown with the same value for every factor
Flat(x) == [f \in Factors |-> JNum(x)]

BreakdownExample ==
    [domain_match |-> JNum(Pts(80)), naics_match |-> JNum(Pts(100)),
     technical_skill_match |-> JNum(Pts(80)), agency_alignment |-> JNum(Pts(100)),
     contract_type_fit |-> JNum(Pts(70)), strategic_value |-> JNum(Pts(60))]

\* the breakdown the rule-based path gives with domain d, naics n, skills s
\* and agency a
RuleLike(d, n, s, a) ==
    [domain_match |-> JNum(Pts(d)), naics_match |-> JNum(Pts(n)),
     technical_skill_match |-> JNum(Pts(s)), agency_alignment |-> JNum(Pts(a)),
     contract_type_fit |-> JNum(Pts(70)), strategic_value |-> JNum(Pts(60))]

\* breakdowns at, one hundredth below and one unit below each threshold
BaseBreakdowns ==
    {BreakdownExample,
     Flat(Pts(70)), Flat(Pts(70) - Sub), Flat(Pts(70) - 1),
     Flat(Pts(50)), Flat(Pts(50) - Sub), Flat(Pts(50) - 1),
     Flat(0), Flat(Pts(100)),
     RuleLike(80, 100, 40, 50), RuleLike(80, 100, 0, 50), RuleLike(30, 50, 0, 50)}

\* values a factor of the answer may have instead
FactorValues ==
    {JNum(0 - Pts(5)), JNum(Pts(150)), JNum(Pts(100) + 1), JNum(0 - 1),
     JStr("85"), JStr("high"), JNull, JBool(TRUE), JList(<< >>)}

Breakdowns ==
    BaseBreakdowns
    \cup {Without(b, f) : b \in {BreakdownExample, Flat(Pts(70))}, f \in Factors}
    \cup {With(b, f, x) : b \in {BreakdownExample, Flat(Pts(50))}, f \in Factors,
                          x \in FactorValues}
    \cup {With(BreakdownExample, "confidence", x) : x \in {JNum(Pts(90)), JStr("high")}}

ScoreTexts ==
    [explanation |-> JStr("Strong domain and NAICS fit."),
     reasoning |-> JStr("The notice matches the core domains."),
     risk_factors |-> StrList(<<"Short deadline", "Incumbent advantage">>)]

ScoreObjects ==
    {With(ScoreTexts, "breakdown", JObj(b)) : b \in Breakdowns}
    \cup {ScoreTexts,
          With(ScoreTexts, "breakdown", EmptyObj),
          With(ScoreTexts, "breakdown", JNull),
          With(ScoreTexts, "breakdown", JList(<<JNum(Pts(80))>>)),
          [breakdown |-> JObj(BreakdownExample)],
          [breakdown |-> JObj(BreakdownExample), explanation |-> JStr("Good fit.")],
          [k \in {} |-> JNull]}
    \cup {With(With(ScoreTexts, "breakdown", JObj(BreakdownExample)), k, JNull) :
             k \in {"explanation", "reasoning", "risk_factors"}}

ScoreReplies ==
    {Raise}
    \cup {NotJson(f) : f \in Fences}
    \cup {Json(f, JObj(With(ScoreTexts, "breakdown", JObj(BreakdownExample)))) : f \in Fences}
    \cup {Json("none", JObj(o)) : o \in ScoreObjects}
    \cup {Json("bare", JList(<< >>)), Json("none", JStr("breakdown")), Json("none", JNull)}

-----------------------------------------------------------------------------
(* Inputs: batches.  Item i of a batch of n items is a notice of BatchPool *)
(* with its own identifier; the collaborator answers the request of each   *)
(* item well or badly after one of a few patterns.                         *)

BatchPool == <<NoticeDevOps, NoticeFurniture, NoticeZeroTrust>>

BatchItems(n) ==
    [i \in 1..n |-> [BatchPool[((i - 1) % Len(BatchPool)) + 1]
                        EXCEPT !.notice_id = "N" \o ToString(i - 1)]]

GoodClassifyReply == Json("none", JObj(ClassificationA))

\* a usable answer with one factor out of range
GoodScoreReply ==
    Json("json", JObj(With(ScoreTexts, "breakdown",
                           JObj(With(BreakdownExample, "strategic_value", JNum(Pts(150)))))))

\* which requests fail: none, all, every other one, or only that of item j
FailurePatterns(n) ==
    {[i \in 1..n |-> FALSE], [i \in 1..n |-> TRUE], [i \in 1..n |-> i % 2 = 1]}
    \cup {[i \in 1..n |-> i = j] : j \in {1, max_ai_score, max_ai_score + 1, n} \cap 1..n}

BatchReplies(n, good) ==
    {[i \in 1..n |-> IF fails[i] THEN (IF i % 3 = 0 THEN Raise ELSE NotJson("none")) ELSE good] :
        fails \in FailurePatterns(n)}

-----------------------------------------------------------------------------
(* The state machine.  mode names the entry point the caller calls. *)

NoBatch ==
    /\ items = << >> /\ items0 = << >> /\ replies = << >> /\ out = << >>
    /\ idx = 0 /\ used_ai = << >>

InitCallOn(m, notices) ==
    /\ mode = m
    /\ pc = "ready"
    /\ client \in BOOLEAN
    /\ opp \in notices
    /\ opp0 = opp
    /\ profile \in Profiles
    /\ reply = Raise
    /\ result = None
    /\ requests = 0
    /\ rule_runs = 0
    /\ raised = FALSE
    /\ earlier = None
    /\ shares = FALSE
    /\ NoBatch

InitCall(m) == InitCallOn(m, Notices)

InitBatch(m, good) ==
    /\ mode = m
    /\ pc = "ready"
    /\ client \in BOOLEAN
    /\ opp = NoticeFurniture /\ opp0 = opp
    /\ profile = ProfileOnyx
    /\ reply = Raise
    /\ result = None
    /\ requests = 0
    /\ rule_runs = 0
    /\ raised = FALSE
    /\ earlier = None
    /\ shares = FALSE
    /\ \E n \in 0..MaxBatch :
          /\ items = BatchItems(n)
          /\ replies \in BatchReplies(n, good)
    /\ items0 = items
    /\ out = << >>
    /\ idx = 0
    /\ used_ai = << >>

\* classifier.classify_opportunity(opp): the object is updated in place and returned
ClassifyOpportunity ==
    /\ mode = "classify_opportunity" /\ pc = "ready"
    /\ \E r \in ClassifyReplies :
          \E res \in {classify_opportunity(client, opp, r)} :
             /\ reply' = r
             /\ opp' = res.opp
             /\ result' = IF res.raised THEN None ELSE res.opp
             /\ raised' = res.raised
             /\ requests' = requests + res.requests
             /\ rule_runs' = rule_runs + res.rule_runs
    /\ pc' = "done"
    /\ UNCHANGED <<mode, client, opp0, profile, items, items0, replies, out, idx, used_ai,
                   earlier, shares>>

\* classifier._rule_based_classify(opp), as callers without the generative path do
RuleBasedClassify ==
    /\ mode = "_rule_based_classify" /\ pc = "ready"
    /\ \E res \in {_rule_based_classify(opp)} :
          /\ opp' = res
          /\ result' = res
    /\ rule_runs' = rule_runs + 1
    /\ pc' = "done"
    /\ UNCHANGED <<mode, client, opp0, profile, reply, requests, items, items0, replies,
                   out, idx, used_ai, raised, earlier, shares>>

\* a second classifier._rule_based_classify(opp) on the object the first
\* call returned, nothing else done in between
RuleBasedClassifyAgain ==
    /\ mode = "_rule_based_classify" /\ pc = "done"
    /\ \E res \in {_rule_based_classify(opp)} :
          /\ opp' = res
          /\ result' = res
    /\ earlier' = result
    /\ rule_runs' = rule_runs + 1
    /\ pc' = "again"
    /\ UNCHANGED <<mode, client, opp0, profile, reply, requests, items, items0, replies,
                   out, idx, used_ai, raised, shares>>

\* score_opportunity that classifies the notice it is given first
ScoreOpportunity_classifying ==
    /\ mode = "score_opportunity" /\ pc = "ready"
    /\ \E r \in ScoreReplies :
          \E res \in {score_opportunity(client, _rule_based_classify(opp), profile, r)} :
             /\ reply' = r
             /\ result' = res.score
             /\ raised' = res.raised
             /\ requests' = requests + res.requests
             /\ rule_runs' = rule_runs + res.rule_runs
    /\ opp' = _rule_based_classify(opp)
    /\ pc' = "done"
    /\ UNCHANGED <<mode, client, opp0, profile, items, items0, replies, out, idx, used_ai,
                   earlier, shares>>

\* scorer.score_opportunity(opp, profile)
ScoreOpportunity ==
    /\ mode = "score_opportunity" /\ pc = "ready"
    /\ \E r \in ScoreReplies :
          \E res \in {score_opportunity(client, opp, profile, r)} :
             /\ reply' = r
             /\ result' = res.score
             /\ raised' = res.raised
             /\ requests' = requests + res.requests
             /\ rule_runs' = rule_runs + res.rule_runs
    /\ pc' = "done"
    /\ UNCHANGED <<mode, client, opp, opp0, profile, items, items0, replies, out, idx, used_ai,
                   earlier, shares>>

\* AppendScore that inserts at the front
AppendScore_front(scores, x) == <<x>> \o scores

\* scores.append(x)
AppendScore(scores, x) == Append(scores, x)

\* scorer.score_batch(items, profile): one iteration of its loop; an
\* exception of the item's call ends the batch call
ScoreBatchItem ==
    /\ mode = "score_batch" /\ pc = "ready"
    /\ idx < Len(items)
    /\ \E res \in {score_batch_item(client, idx, items[idx + 1], profile, replies[idx + 1])} :
          /\ out' = IF res.raised THEN out ELSE AppendScore(out, res.score)
          /\ used_ai' = IF res.raised THEN used_ai ELSE Append(used_ai, res.requests)
          /\ requests' = requests + res.requests
          /\ rule_runs' = rule_runs + res.rule_runs
          /\ raised' = res.raised
          /\ pc' = IF res.raised THEN "done" ELSE pc
    /\ idx' = idx + 1
    /\ UNCHANGED <<mode, client, opp, opp0, profile, reply, result, items, items0, replies,
                   earlier, shares>>

\* classifier.classify_batch(items): one iteration of its comprehension; the
\* object of the input list is updated in place and is the element of the output
ClassifyBatchItem ==
    /\ mode = "classify_batch" /\ pc = "ready"
    /\ idx < Len(items)
    /\ \E res \in {classify_batch_item(client, idx, items[idx + 1], replies[idx + 1])} :
          /\ out' = IF res.raised THEN out ELSE Append(out, res.opp)
          /\ items' = [items EXCEPT ![idx + 1] = res.opp]
          /\ used_ai' = IF res.raised THEN used_ai ELSE Append(used_ai, res.requests)
          /\ requests' = requests + res.requests
          /\ rule_runs' = rule_runs + res.rule_runs
          /\ raised' = res.raised
          /\ pc' = IF res.raised THEN "done" ELSE pc
    /\ idx' = idx + 1
    /\ UNCHANGED <<mode, client, opp, opp0, profile, reply, result, items0, replies,
                   earlier, shares>>

\* the batch call returns its list
BatchReturn ==
    /\ mode \in {"score_batch", "classify_batch"} /\ pc = "ready"
    /\ idx = Len(items)
    /\ result' = out
    /\ pc' = "done"
    /\ UNCHANGED <<mode, client, opp, opp0, profile, reply, requests, rule_runs, items,
                   items0, replies, out, idx, used_ai, raised, earlier, shares>>

(* src/app.py: fetch_and_classify_opportunities(quick_test=True).  items is *)
(* the list ingestion.get_opportunities returned; client tells whether the  *)
(* settings configure a provider (an OpenAI key or an Ollama URL), which is *)
(* when AIClassifier() holds a client.                                      *)

\* the number of notices quick-test mode keeps
quick_test_limit == 20

InitQuickTest ==
    /\ mode = "quick_test"
    /\ pc = "ready"
    /\ client \in BOOLEAN
    /\ opp = NoticeFurniture /\ opp0 = opp
    /\ profile = ProfileOnyx
    /\ reply = Raise
    /\ result = None
    /\ requests = 0
    /\ rule_runs = 0
    /\ raised = FALSE
    /\ earlier = None
    /\ shares = FALSE
    /\ \E n \in 0..MaxBatch :
          /\ items = BatchItems(n)
          /\ replies \in BatchReplies(n, GoodClassifyReply)
    /\ items0 = items
    /\ out = << >>
    /\ idx = 0
    /\ used_ai = << >>

\* if quick_test and len(opportunities) > 20: opportunities = opportunities[:20]
QuickTestLimit ==
    /\ mode = "quick_test" /\ pc = "ready"
    /\ items' = IF Len(items) > quick_test_limit
                THEN SubSeq(items, 1, quick_test_limit) ELSE items
    /\ pc' = "limited"
    /\ UNCHANGED <<mode, client, opp, opp0, profile, reply, result, requests, rule_runs,
                   items0, replies, out, idx, used_ai, raised, earlier, shares>>

\* opportunities = classifier.classify_batch(opportunities), taken because
\* quick_test is set: one iteration of the comprehension of classify_batch
QuickTestClassifyItem ==
    /\ mode = "quick_test" /\ pc = "limited"
    /\ idx < Len(items)
    /\ \E res \in {classify_batch_item(client, idx, items[idx + 1], replies[idx + 1])} :
          /\ out' = IF res.raised THEN out ELSE Append(out, res.opp)
          /\ items' = [items EXCEPT ![idx + 1] = res.opp]
          /\ used_ai' = IF res.raised THEN used_ai ELSE Append(used_ai, res.requests)
          /\ requests' = requests + res.requests
          /\ rule_runs' = rule_runs + res.rule_runs
          /\ raised' = res.raised
          /\ pc' = IF res.raised THEN "done" ELSE pc
    /\ idx' = idx + 1
    /\ UNCHANGED <<mode, client, opp, opp0, profile, reply, result, items0, replies,
                   earlier, shares>>

\* the classified notices are saved and returned
QuickTestReturn ==
    /\ mode = "quick_test" /\ pc = "limited"
    /\ idx = Len(items)
    /\ result' = out
    /\ pc' = "done"
    /\ UNCHANGED <<mode, client, opp, opp0, profile, reply, requests, rule_runs, items,
                   items0, replies, out, idx, used_ai, raised, earlier, shares>>

NextQuickTest ==
    \/ QuickTestLimit
    \/ QuickTestClassifyItem
    \/ QuickTestReturn
SpecQuickTest == InitQuickTest /\ [][NextQuickTest]_vars

(* The life of one OpportunityScore S = score_opportunity(n, p): the caller *)
(* keeps S and goes on using the engine on n.  The field S.opportunity is   *)
(* what OpportunityScore(opportunity=n, ...) stored: pydantic 2 keeps the   *)
(* instance n itself, pydantic 1 keeps a copy of it; the source runs on     *)
(* both (profile.model_dump() with profile.dict() as the other branch), so  *)
(* shares is either.                                                        *)

\* the answers of the first scoring
HeldScoreReplies == {Raise, GoodScoreReply}

\* the answers to a later scoring
RescoreReplies ==
    {Raise, Json("none", JObj(With(ScoreTexts, "breakdown", JObj(Flat(Pts(50))))))}

InitLifecycle ==
    /\ mode = "lifecycle"
    /\ pc = "ready"
    /\ client \in BOOLEAN
    /\ opp \in Notices
    /\ opp0 = opp
    /\ profile \in Profiles
    /\ reply = Raise
    /\ result = None
    /\ requests = 0
    /\ rule_runs = 0
    /\ raised = FALSE
    /\ earlier = None
    /\ shares \in BOOLEAN
    /\ NoBatch

\* S = scorer.score_opportunity(opp, profile), kept by the caller
ScoreAndKeep ==
    /\ mode = "lifecycle" /\ pc = "ready"
    /\ \E r \in HeldScoreReplies :
          \E res \in {score_opportunity(client, opp, profile, r)} :
             /\ reply' = r
             /\ result' = res.score
             /\ earlier' = res.score
             /\ raised' = res.raised
             /\ requests' = requests + res.requests
             /\ rule_runs' = rule_runs + res.rule_runs
             /\ pc' = IF res.raised THEN "done" ELSE "scored"
    /\ UNCHANGED <<mode, client, opp, opp0, profile, items, items0, replies, out, idx,
                   used_ai, shares>>

\* later: classifier.classify_opportunity(opp) on the same notice object
LaterClassify ==
    /\ mode = "lifecycle" /\ pc = "scored"
    /\ \E r \in ClassifyReplies :
          \E res \in {classify_opportunity(client, opp, r)} :
             /\ reply' = r
             /\ opp' = res.opp
             /\ result' = IF res.raised THEN None ELSE res.opp
             /\ raised' = res.raised
             /\ requests' = requests + res.requests
             /\ rule_runs' = rule_runs + res.rule_runs
    /\ pc' = "later"
    /\ UNCHANGED <<mode, client, opp0, profile, items, items0, replies, out, idx, used_ai,
                   earlier, shares>>

\* later: classifier._rule_based_classify(opp) on the same notice object
LaterRuleBasedClassify ==
    /\ mode = "lifecycle" /\ pc = "scored"
    /\ \E res \in {_rule_based_classify(opp)} :
          /\ opp' = res
          /\ result' = res
    /\ rule_runs' = rule_runs + 1
    /\ pc' = "later"
    /\ UNCHANGED <<mode, client, opp0, profile, reply, requests, items, items0, replies,
                   out, idx, used_ai, raised, earlier, shares>>

\* later: scorer.score_opportunity(opp, profile) again
LaterScore ==
    /\ mode = "lifecycle" /\ pc = "scored"
    /\ \E r \in RescoreReplies :
          \E res \in {score_opportunity(client, opp, profile, r)} :
             /\ reply' = r
             /\ result' = res.score
             /\ raised' = res.raised
             /\ requests' = requests + res.requests
             /\ rule_runs' = rule_runs + res.rule_runs
    /\ pc' = "later"
    /\ UNCHANGED <<mode, client, opp, opp0, profile, items, items0, replies, out, idx,
                   used_ai, earlier, shares>>

\* the score S as its holder reads it now
HeldScore ==
    IF shares THEN [earlier EXCEPT !.opportunity = opp] ELSE earlier

NextLifecycle ==
    \/ ScoreAndKeep
    \/ LaterClassify
    \/ LaterRuleBasedClassify
    \/ LaterScore
SpecLifecycle == InitLifecycle /\ [][NextLifecycle]_vars

InitClassifier ==
    \/ InitCall("classify_opportunity")
    \/ InitCallOn("_rule_based_classify", Notices \cup LengthNotices)
    \/ InitBatch("classify_batch", GoodClassifyReply)
NextClassifier ==
    \/ ClassifyOpportunity
    \/ RuleBasedClassify
    \/ RuleBasedClassifyAgain
    \/ ClassifyBatchItem
    \/ BatchReturn
SpecClassifier == InitClassifier /\ [][NextClassifier]_vars

InitScorer ==
    \/ InitCall("score_opportunity")
    \/ InitBatch("score_batch", GoodScoreReply)
NextScorer ==
    \/ ScoreOpportunity
    \/ ScoreBatchItem
    \/ BatchReturn
SpecScorer == InitScorer /\ [][NextScorer]_vars

Init == InitClassifier \/ InitScorer \/ InitLifecycle \/ InitQuickTest
Next ==
    \/ ClassifyOpportunity
    \/ RuleBasedClassify
    \/ RuleBasedClassifyAgain
    \/ ClassifyBatchItem
    \/ ScoreOpportunity
    \/ ScoreBatchItem
    \/ BatchReturn
    \/ ScoreAndKeep
    \/ LaterClassify
    \/ LaterRuleBasedClassify
    \/ LaterScore
    \/ QuickTestLimit
    \/ QuickTestClassifyItem
    \/ QuickTestReturn
Spec == Init /\ [][Next]_vars

-----------------------------------------------------------------------------
(* Properties *)

TransportFailure(r) == r.kind = "raise"

\* the content handed to json.loads is no JSON text
NotParseable(r) == r.kind = "content" /\ (~r.json \/ r.fence = "tagged")

\* the content parses to a JSON object
ParsesToObject(r) ==
    r.kind = "content" /\ r.json /\ r.fence # "tagged" /\ r.value.t = "obj"

ClassifyDone == mode = "classify_opportunity" /\ pc = "done"
ScoreDone == mode = "score_opportunity" /\ pc = "done"

\* C1: when the generative classification fails by a transport exception or
\* by a response that is no parseable JSON, the five classification fields
\* of the returned notice are those _rule_based_classify gives for the notice
\* as it was passed.
C1_FailureGivesRuleBasedClassification ==
    (ClassifyDone /\ client /\ (TransportFailure(reply) \/ NotParseable(reply)))
        => Classification(result) = Classification(_rule_based_classify(opp0))

C1_Witness ==
    /\ ClassifyDone /\ client /\ NotParseable(reply)
    /\ requests = 1
    /\ opp0.primary_domain = None
    /\ result.primary_domain = AI
    /\ result.secondary_domains = <<DATA, CLOUD, MODERNIZATION>>

\* float() does not convert the value (it converts a number, a string of
\* digits and a boolean)
NonNumeric(j) ==
    \/ j.t \in {"null", "list", "obj"}
    \/ j.t = "str" /\ ~IsDigits(j.v)

\* the cases of a generative scoring attempt that C2 names
ScoringFailure(r) ==
    \/ TransportFailure(r)
    \/ NotParseable(r)
    \/ /\ ParsesToObject(r)
       /\ \/ ~HasKey(r.value, "breakdown")
          \/ r.value.v["breakdown"] = EmptyObj
          \/ /\ r.value.v["breakdown"].t = "obj"
             /\ \E f \in Factors :
                   \/ f \notin DOMAIN r.value.v["breakdown"].v
                   \/ NonNumeric(r.value.v["breakdown"].v[f])

\* C2: when the generative scoring attempt raises, returns unparseable JSON,
\* omits or empties the breakdown, omits a factor or gives a non-numeric
\* factor, the returned score has the breakdown, fit_score,
\* recommended_action, explanation, reasoning and risk_factors of
\* _rule_based_score on the same inputs.
C2_FailureGivesRuleBasedScore ==
    (ScoreDone /\ client /\ ScoringFailure(reply))
        => LET rule == _rule_based_score(opp0, profile)
           IN /\ result.breakdown = rule.breakdown
              /\ result.fit_score = rule.fit_score
              /\ result.recommended_action = rule.recommended_action
              /\ result.explanation = rule.explanation
              /\ result.reasoning = rule.reasoning
              /\ result.risk_factors = rule.risk_factors

C2_Witness ==
    /\ ScoreDone /\ client /\ ParsesToObject(reply)
    /\ HasKey(reply.value, "breakdown")
    /\ HasKey(reply.value, "explanation")
    /\ reply.value.v["breakdown"].t = "obj"
    /\ DOMAIN reply.value.v["breakdown"].v = Factors \ {"naics_match"}
    /\ result.risk_factors = <<"Rule-based scoring used (AI unavailable)">>
    /\ result.breakdown.naics_match = Pts(100)

\* C3 (as claimed): a well-formed JSON answer without a primary_domain (no
\* key, null or empty) is discarded: the classification is the rule-based one
\* and primary_domain is set.
C3_MissingDomainFallsBack ==
    (/\ ClassifyDone /\ client /\ ParsesToObject(reply)
     /\ Get(reply.value, "primary_domain", JNull) \in {JNull, JStr("")})
        => /\ Classification(result) = Classification(_rule_based_classify(opp0))
           /\ result.primary_domain # None

\* the scores returned so far
ReturnedScores ==
    IF mode = "score_batch" THEN Range(out)
    ELSE IF ScoreDone THEN {result}
    ELSE {}

\* a generative answer with nothing wrong but the range of its factors
NumericAnswer(r) ==
    /\ ParsesToObject(r)
    /\ HasKey(r.value, "breakdown")
    /\ r.value.v["breakdown"].t = "obj"
    /\ Factors \subseteq DOMAIN r.value.v["breakdown"].v
    /\ \A k \in DOMAIN r.value.v["breakdown"].v : r.value.v["breakdown"].v[k].t = "num"
    /\ \A k \in {"explanation", "reasoning"} \cap DOMAIN r.value.v : IsStr(r.value.v[k])
    /\ HasKey(r.value, "risk_factors") => IsStrList(r.value.v["risk_factors"])

\* C4: every factor of every returned breakdown lies in [0, 100]; a
\* generative factor below 0 is reported as 0, one above 100 as 100, and the
\* factors within the range are kept.
C4_FactorsWithinRange ==
    /\ \A s \in ReturnedScores : \A f \in Factors :
          s.breakdown[f] >= 0 /\ s.breakdown[f] <= Pts(100)
    /\ (ScoreDone /\ client /\ NumericAnswer(reply))
          => \A f \in Factors :
                LET x == reply.value.v["breakdown"].v[f].v
                IN result.breakdown[f] =
                      IF x < 0 THEN 0 ELSE IF x > Pts(100) THEN Pts(100) ELSE x

C4_Witness ==
    /\ ScoreDone /\ client /\ NumericAnswer(reply)
    /\ reply.value.v["breakdown"].v["agency_alignment"].v = 0 - Pts(5)
    /\ result.breakdown.agency_alignment = 0
    /\ result.breakdown.domain_match = Pts(80)
    /\ result.explanation = "Strong domain and NAICS fit."

\* 100 * 0.30*d + 0.20*n + 0.20*s + 0.10*a + 0.10*c + 0.10*v, the factors in
\* their units
Formula(b) ==
    30 * b.domain_match + 20 * b.naics_match + 20 * b.technical_skill_match
    + 10 * b.agency_alignment + 10 * b.contract_type_fit + 10 * b.strategic_value

\* C5: fit_score is the weighted sum of the breakdown to the nearest
\* hundredth and lies in [0, 100]; the breakdown (80, 100, 80, 100, 70, 60)
\* gives 83.00 and BID.
C5_FitScoreIsWeightedSum ==
    \A s \in ReturnedScores :
        /\ 2 * (s.fit_score * Point - Formula(s.breakdown)) <= Point
        /\ 2 * (Formula(s.breakdown) - s.fit_score * Point) <= Point
        /\ s.fit_score >= 0 /\ s.fit_score <= 100 * 100
        /\ (s.breakdown = [domain_match |-> Pts(80), naics_match |-> Pts(100),
                           technical_skill_match |-> Pts(80), agency_alignment |-> Pts(100),
                           contract_type_fit |-> Pts(70), strategic_value |-> Pts(60)])
              => s.fit_score = 8300 /\ s.recommended_action = BID

C5_Witness ==
    /\ ScoreDone
    /\ result.breakdown = [domain_match |-> Pts(80), naics_match |-> Pts(100),
                           technical_skill_match |-> Pts(80), agency_alignment |-> Pts(100),
                           contract_type_fit |-> Pts(70), strategic_value |-> Pts(60)]
    /\ result.fit_score = 8300
    /\ result.recommended_action = BID

\* a weighted sum of n hundredths of a point
Hundredths(n) == n * Point

C7_ActionAgreesWithStoredFit ==
    \A s \in ReturnedScores :
        /\ s.recommended_action = BID <=> s.fit_score >= 7000
        /\ s.recommended_action = TEAM_SUB <=> (s.fit_score >= 5000 /\ s.fit_score < 7000)
        /\ s.recommended_action = IGNORE <=> s.fit_score < 5000

\* C8: with a client, item i of score_batch makes one generative request if
\* i < 20 and none, with the rule-based score, if i >= 20; a whole batch
\* makes min(length, 20) requests.
C8_ScoreBatchCeiling ==
    (mode = "score_batch" /\ client)
        => /\ \A i \in 1..Len(out) :
                 /\ i - 1 < 20 => used_ai[i] = 1
                 /\ i - 1 >= 20 => /\ used_ai[i] = 0
                                   /\ out[i] = _rule_based_score(items0[i], profile)
           /\ pc = "done" => requests = Min(Len(items0), 20)

C8_Witness ==
    /\ mode = "score_batch" /\ client /\ pc = "done"
    /\ Len(items0) = 22
    /\ \E i \in 1..20 : replies[i] # GoodScoreReply
    /\ replies[21] = GoodScoreReply
    /\ requests = 20
    /\ out[21].risk_factors = <<"Rule-based scoring used (AI unavailable)">>

\* C9 (as claimed): with a client, classify_batch makes no generative
\* request for a notice at index >= 20.
C9_ClassifyBatchCeiling ==
    (mode = "classify_batch" /\ client)
        => \A i \in 1..Len(out) : i - 1 >= 20 => used_ai[i] = 0

\* C10: a batch returns a list as long as its input whose element i is the
\* score or classification of input i, by the generative or by the rule-based
\* path.
C10_BatchKeepsLengthAndOrder ==
    /\ (mode = "score_batch" /\ pc = "done")
          => /\ Len(result) = Len(items0)
             /\ \A i \in 1..Len(items0) :
                   /\ result[i].opportunity.notice_id = items0[i].notice_id
                   /\ result[i] \in
                         {score_opportunity(client, items0[i], profile, replies[i]).score,
                          _rule_based_score(items0[i], profile)}
    /\ (mode = "classify_batch" /\ pc = "done")
          => /\ Len(result) = Len(items0)
             /\ \A i \in 1..Len(items0) :
                   /\ result[i].notice_id = items0[i].notice_id
                   /\ Classification(result[i]) \in
                         {Classification(classify_opportunity(client, items0[i], replies[i]).opp),
                          Classification(_rule_based_classify(items0[i]))}

C10_Witness ==
    /\ mode = "score_batch" /\ pc = "done" /\ client
    /\ Len(result) = 22
    /\ result[1].opportunity.notice_id = "N0"
    /\ result[22].opportunity.notice_id = "N21"
    /\ result[1].risk_factors = <<"Rule-based scoring used (AI unavailable)">>
    /\ result[2].risk_factors = <<"Short deadline", "Incumbent advantage">>

\* the call ran _rule_based_classify on the notice as it was passed
RuleBasedClassifyRan ==
    \/ mode = "_rule_based_classify" /\ pc = "done"
    \/ ClassifyDone /\ rule_runs = 1

\* C11: a notice whose lowercased title and description contain a term of
\* the exclusion list is classified by _rule_based_classify with
\* primary_domain = Other and complexity = Low, whatever domain keywords,
\* "complex" / "enterprise" or description length it has.
C11_ExclusionGivesOtherLow ==
    (RuleBasedClassifyRan /\ AnyIn(non_it_terms, TextOf(opp0)))
        => result.primary_domain = OTHER_ /\ result.complexity = LOW

C11_Witness ==
    /\ mode = "_rule_based_classify" /\ pc = "done"
    /\ Contains(TextOf(opp0), "valve")
    /\ Contains(TextOf(opp0), "machine learning")
    /\ Contains(TextOf(opp0), "complex")
    /\ DescriptionWords(opp0) > 1000
    /\ opp0.complexity = HIGH /\ opp0.primary_domain = CYBER
    /\ result.primary_domain = OTHER_ /\ result.complexity = LOW

\* C12: a second _rule_based_classify on the notice the first call returned
\* leaves the five classification fields as the first call left them.
C12_RuleBasedClassifyIdempotent ==
    (mode = "_rule_based_classify" /\ pc = "again")
        => Classification(result) = Classification(earlier)

C12_Witness ==
    /\ mode = "_rule_based_classify" /\ pc = "again"
    /\ rule_runs = 2
    /\ Classification(opp0) # Classification(earlier)
    /\ earlier.secondary_domains = <<DATA, CLOUD, MODERNIZATION>>
    /\ result.primary_domain = AI
    /\ result.secondary_domains = <<DATA, CLOUD, MODERNIZATION>>

\* C13: one classify_opportunity or score_opportunity call sends at most one
\* request; when the request fails or its payload is rejected, the
\* rule-based path runs exactly once and no second request is sent.
C13_OneRequestOneFallback ==
    (ClassifyDone \/ ScoreDone)
        => /\ requests <= 1
           /\ rule_runs <= 1
           /\ ~client => requests = 0 /\ rule_runs = 1
           /\ client => requests = 1
           /\ (client /\ (TransportFailure(reply) \/ NotParseable(reply))) => rule_runs = 1
           /\ (ScoreDone /\ client /\ ScoringFailure(reply)) => rule_runs = 1

C13_Witness ==
    /\ ScoreDone /\ client /\ TransportFailure(reply)
    /\ requests = 1 /\ rule_runs = 1
    /\ result.risk_factors = <<"Rule-based scoring used (AI unavailable)">>

\* C14: whatever the collaborator does (no client, an exception, text that
\* is no JSON, JSON of the wrong shape or type), classify_opportunity and
\* score_opportunity return a result and raise nothing.
C14_CallsNeverRaise ==
    /\ ClassifyDone => ~raised /\ result.notice_id = opp0.notice_id
    /\ ScoreDone => ~raised /\ result.recommended_action \in RecommendedAction

C14_Witness ==
    /\ ClassifyDone /\ client /\ ~raised
    /\ reply.kind = "content" /\ reply.json /\ reply.value.t = "list"
    /\ rule_runs = 1
    /\ result.primary_domain = AI

\* the generative answer was taken, and its primary_domain is the non-empty
\* string this gives in lower case (else "")
GivenDomain ==
    IF ClassifyDone /\ client /\ rule_runs = 0 /\ ParsesToObject(reply)
    THEN (IF Get(reply.value, "primary_domain", JNull).t = "str"
          THEN lower(reply.value.v["primary_domain"].v) ELSE "")
    ELSE ""

\* C15 (as claimed): _normalize_domain gives a value of the enum for every
\* non-empty category; "machine learning", "llm" and "ml" give AI, and
\* "zero trust" and "fedramp" give Cybersecurity.
C15_NormalizeDomainAliases ==
    GivenDomain # ""
        => /\ result.primary_domain \in OpportunityDomain
           /\ GivenDomain \in {"machine learning", "llm", "ml"} => result.primary_domain = AI
           /\ GivenDomain \in {"zero trust", "fedramp"} => result.primary_domain = CYBER

\* C16 (as claimed): after classify_opportunity on a notice not classified
\* before, secondary_domains holds values of the enum only, no value twice
\* and not the primary_domain.
C16_SecondaryDomainsSet ==
    (ClassifyDone /\ Classification(opp0) = Classification(NoticeML))
        => /\ \A i \in 1..Len(result.secondary_domains) :
                 /\ result.secondary_domains[i] \in OpportunityDomain
                 /\ result.secondary_domains[i] # result.primary_domain
           /\ \A i, j \in 1..Len(result.secondary_domains) :
                 i # j => result.secondary_domains[i] # result.secondary_domains[j]

\* C17: when the generative path keeps a breakdown that the rule-based path
\* also gives for the same notice and profile, the two scores have the same
\* fit_score and the same recommended_action.
C17_StrategiesCombineAlike ==
    (ScoreDone /\ client /\ rule_runs = 0
     /\ result.breakdown = _rule_based_score(opp0, profile).breakdown)
        => /\ result.fit_score = _rule_based_score(opp0, profile).fit_score
           /\ result.recommended_action = _rule_based_score(opp0, profile).recommended_action

C17_Witness ==
    /\ ScoreDone /\ client /\ rule_runs = 0 /\ requests = 1
    /\ result.explanation = "Strong domain and NAICS fit."
    /\ result.breakdown = _rule_based_score(opp0, profile).breakdown
    /\ result.breakdown.technical_skill_match = Pts(40)
    /\ result.fit_score = 7000
    /\ _rule_based_score(opp0, profile).recommended_action = BID

\* C18 (as claimed): classify_opportunity leaves the field values of the
\* notice object it was passed as they were.
C18_ClassifyLeavesInputUnchanged ==
    ClassifyDone => opp = opp0

\* C19: score_opportunity, _rule_based_score and score_batch change no field
\* of the notices and of the profile they are given, on the generative, the
\* rule-based and the fallback path.
C19_ScoringLeavesInputsUnchanged ==
    [][(mode \in {"score_opportunity", "score_batch"})
          => (opp' = opp /\ profile' = profile /\ items' = items)]_vars

C19_Witness ==
    /\ ScoreDone /\ client /\ requests = 1 /\ rule_runs = 1
    /\ opp0.primary_domain = "Cybersecurity"
    /\ result.opportunity = opp0
    /\ opp = opp0

\* C20 (as claimed): once score_opportunity has returned S, a later
\* classify_opportunity or _rule_based_classify on the notice, or a later
\* scoring of it, leaves the content of S as it was.
C20_ScoreImmutable ==
    (mode = "lifecycle" /\ pc = "later") => HeldScore = earlier

\* the call ran _rule_based_score on the notice and the profile as passed,
\* and returned its score
RuleBasedScoreRan == ScoreDone /\ rule_runs = 1 /\ ~raised

\* C21 (as claimed): with a profile whose technical_skills list is empty,
\* rule-based scoring returns a score whose technical_skill_match is the
\* neutral value 50.
C21_EmptySkillsGiveNeutral ==
    (RuleBasedScoreRan /\ profile.technical_skills = << >>)
        => result.breakdown.technical_skill_match = Pts(50)

\* C22 (as claimed): rule-based domain_match is 80 or 30; it is 80 exactly
\* when a core-domain label of the profile and the primary_domain of the
\* notice overlap, one containing the other or both holding a keyword of
\* one group of the domain-keyword table, and 30 otherwise.
C22_DomainMatchByOverlap ==
    (RuleBasedScoreRan /\ opp0.primary_domain # None)
        => /\ result.breakdown.domain_match \in {Pts(80), Pts(30)}
           /\ result.breakdown.domain_match = Pts(80)
                 <=> \E k \in 1..Len(profile.core_domains) :
                        DomainOverlaps(profile.core_domains[k],
                                       lower(DomainValue(opp0.primary_domain)))

\* the number of skills of the profile that occur, whatever the case, in the
\* title and description of the notice
SkillsFound ==
    Cardinality({k \in 1..Len(profile.technical_skills) :
                    Contains(TextOf(opp0), lower(profile.technical_skills[k]))})

C24_NaicsMatchValues ==
    RuleBasedScoreRan
        => result.breakdown.naics_match
              = (IF opp0.naics = << >> \/ profile.naics = << >> THEN Pts(50)
                 ELSE IF \E i \in 1..Len(opp0.naics) : \E j \in 1..Len(profile.naics) :
                            opp0.naics[i] = profile.naics[j]
                 THEN Pts(100) ELSE Pts(20))

C24_Witness ==
    /\ RuleBasedScoreRan
    /\ opp0.naics = <<"541512", "541519">>
    /\ profile.naics = <<"541511", "541512">>
    /\ result.breakdown.naics_match = Pts(100)

\* the order of the keyword groups
KeywordGroupOrder == <<AI, DATA, CLOUD, CYBER, SOFTWARE, MODERNIZATION>>

\* a keyword of the group of domain d occurs in the text of the notice
GroupFound(d) ==
    \E g \in 1..Len(domain_groups) :
       domain_groups[g][1] = d /\ AnyIn(domain_groups[g][2], TextOf(opp0))

\* C25: for a notice without exclusion terms, _rule_based_classify sets
\* primary_domain to the first of the groups AI, Data, Cloud, Cybersecurity,
\* Software, Modernization that has a keyword in the text and
\* secondary_domains to the other groups that have one, in that order;
\* primary_domain is Other when no group has one.
C25_GroupsInFixedOrder ==
    (RuleBasedClassifyRan /\ ~AnyIn(non_it_terms, TextOf(opp0)))
        => IF SelectSeq(KeywordGroupOrder, GroupFound) = << >>
           THEN result.primary_domain = OTHER_
           ELSE /\ result.primary_domain = Head(SelectSeq(KeywordGroupOrder, GroupFound))
                /\ result.secondary_domains = Tail(SelectSeq(KeywordGroupOrder, GroupFound))

C25_Witness ==
    /\ RuleBasedClassifyRan
    /\ opp0.title = "Machine Learning Platform"
    /\ SelectSeq(KeywordGroupOrder, GroupFound) = <<AI, DATA, CLOUD, MODERNIZATION>>
    /\ result.primary_domain = AI
    /\ result.secondary_domains = <<DATA, CLOUD, MODERNIZATION>>

\* "complex" or "enterprise" occurs in the text of the notice
ComplexityKeyword == Contains(TextOf(opp0), "complex") \/ Contains(TextOf(opp0), "enterprise")

\* C26: for a notice without exclusion terms, rule-based complexity is High
\* when the description has more than 1000 words or the text holds "complex"
\* or "enterprise", whatever the length; else Low under 200 words; else
\* Medium, so that 200 and 1000 words without those keywords give Medium.
C26_ComplexityByLength ==
    (RuleBasedClassifyRan /\ ~AnyIn(non_it_terms, TextOf(opp0)))
        => /\ result.complexity =
                 (IF DescriptionWords(opp0) > 1000 \/ ComplexityKeyword THEN HIGH
                  ELSE IF DescriptionWords(opp0) < 200 THEN LOW ELSE MEDIUM)
           /\ (DescriptionWords(opp0) \in {200, 1000} /\ ~ComplexityKeyword)
                 => result.complexity = MEDIUM
           /\ (DescriptionWords(opp0) < 200 /\ Contains(TextOf(opp0), "enterprise"))
                 => result.complexity = HIGH

C26_Witness ==
    /\ mode = "_rule_based_classify" /\ pc = "done"
    /\ ~AnyIn(non_it_terms, TextOf(opp0))
    /\ DescriptionWords(opp0) = 1000 /\ ~ComplexityKeyword
    /\ opp0.complexity = None
    /\ result.complexity = MEDIUM

\* the notice o with the same title, description and other data, never
\* classified
Unclassified(o) ==
    [o EXCEPT !.primary_domain = None, !.secondary_domains = << >>,
              !.complexity = None, !.project_type = None, !.is_legacy = None]

\* C27 (as claimed): the five classification fields after
\* _rule_based_classify are those the call gives the never classified notice
\* of the same title and description, whatever values the fields had before.
C27_NoStaleClassification ==
    (mode = "_rule_based_classify" /\ pc = "done")
        => Classification(result) = Classification(_rule_based_classify(Unclassified(opp0)))

\* C28 (as claimed): for a notice whose primary_domain is unset, rule-based
\* domain_match is 30 whatever the profile.
C28_UnsetDomainGivesThirty ==
    (RuleBasedScoreRan /\ opp0.primary_domain = None)
        => result.breakdown.domain_match = Pts(30)

\* C29 (as claimed): in quick-test mode fetch_and_classify_opportunities
\* returns at most 20 classified notices, each classified by the rule-based
\* path, and sends no request to the generative backend, with or without a
\* configured provider.
C29_QuickTestRuleBasedOnly ==
    (mode = "quick_test" /\ pc = "done")
        => /\ Len(result) <= quick_test_limit
           /\ requests = 0
           /\ rule_runs = Len(result)

\* C30: _normalize_domain gives each of the eight labels of the enum (AI,
\* Data, Cloud, Cybersecurity, IT Operations, Software Engineering,
\* Modernization, Other), in whatever letter case, the member of that label.
C30_NormalizeDomainIdentity ==
    \A d \in OpportunityDomain :
       GivenDomain = lower(DomainValue(d)) => result.primary_domain = d

C30_Witness ==
    /\ ClassifyDone /\ client /\ rule_runs = 0
    /\ GivenDomain = "software engineering"
    /\ reply.value.v["primary_domain"].v = "SOFTWARE ENGINEERING"
    /\ result.primary_domain = SOFTWARE

====
